---- MODULE Spec2Model ----
(***************************************************************************)
(* A model of memfs (src/memfs.go): an in-memory io/fs.FS made of a heap   *)
(* of directory and file nodes, the handles Open returns, and the public   *)
(* operations Open, MkdirAll, WriteFile and the handle methods.            *)
(*                                                                         *)
(* Strings are sequences of one-character strings, so that path            *)
(* validation, splitting, Dir and Base are computed as the code computes   *)
(* them.  Pointers are indices into the heap: heap[1] is the root.         *)
(***************************************************************************)
EXTENDS Integers, Sequences, FiniteSets, TLC

(***************************************************************************)
(* Bounds of the model.                                                    *)
(***************************************************************************)
\* nodes ever allocated, the root included
MaxNodes == 4
\* handles ever returned by Open
MaxHandles == 1
\* longest payload given to WriteFile
MaxData == 2
\* longest buffer given to Read
MaxRead == 1
\* most segments of a valid input path
MaxDepth == 2
\* largest count given to ReadDir
MaxBatch == 1
\* nodes ever allocated where handles are open, the root included
HMaxNodes == 3
\* the handles and the nodes of the specification of two handles
PMaxHandles == 2
PMaxNodes == 3

\* fs.ModeDir | 0644 and 0644: the permission bits, in decimal
Perm == 420

(***************************************************************************)
(* Strings.                                                                *)
(***************************************************************************)
Dot == <<".">>
Slash == "/"
Empty == << >>

\* the byte order of the characters the inputs are made of
Rank(c) == CASE c = "." -> 46 [] c = "/" -> 47 [] c = "a" -> 97 [] c = "b" -> 98

RECURSIVE LessStr(_, _)
\* s < t as Go compares strings (bytewise, a proper prefix first)
LessStr(s, t) ==
    IF t = Empty THEN FALSE
    ELSE IF s = Empty THEN TRUE
    ELSE IF Head(s) = Head(t) THEN LessStr(Tail(s), Tail(t))
    ELSE Rank(Head(s)) < Rank(Head(t))

\* index of the first "/" of name, or Len(name) + 1
FirstSlash(name) ==
    IF \E i \in 1..Len(name) : name[i] = Slash
    THEN CHOOSE i \in 1..Len(name) :
            name[i] = Slash /\ \A j \in 1..(i - 1) : name[j] # Slash
    ELSE Len(name) + 1

\* index of the last "/" of name, or 0
LastSlash(name) ==
    IF \E i \in 1..Len(name) : name[i] = Slash
    THEN CHOOSE i \in 1..Len(name) :
            name[i] = Slash /\ \A j \in (i + 1)..Len(name) : name[j] # Slash
    ELSE 0

RECURSIVE ValidPathLoop(_)
\* the loop of io/fs.ValidPath over the elements of name: every element is
\* non-empty and neither "." nor ".."
ValidPathLoop(name) ==
    LET i == FirstSlash(name)
        elem == SubSeq(name, 1, i - 1)
    IN  IF elem = Empty \/ elem = <<".">> \/ elem = <<".", ".">> THEN FALSE
        ELSE IF i = Len(name) + 1 THEN TRUE
        ELSE ValidPathLoop(SubSeq(name, i + 1, Len(name)))

\* io/fs.ValidPath: "." or non-empty elements, none "." or "..", joined by "/"
ValidPath(name) == name = Dot \/ ValidPathLoop(name)

RECURSIVE Split(_)
\* strings.Split(name, "/"): the elements between the slashes, empty ones kept
Split(name) ==
    LET i == FirstSlash(name)
    IN  IF i = Len(name) + 1 THEN <<name>>
        ELSE <<SubSeq(name, 1, i - 1)>> \o Split(SubSeq(name, i + 1, Len(name)))

RECURSIVE TrimSlashes(_)
\* drop the trailing slashes of s
TrimSlashes(s) ==
    IF s # Empty /\ s[Len(s)] = Slash THEN TrimSlashes(SubSeq(s, 1, Len(s) - 1))
    ELSE s

\* path/filepath.Dir on a path that passed ValidPath: everything before the
\* last slash, cleaned (Clean has only a trailing slash to drop there), "."
\* when nothing is left
Dir(name) ==
    LET d == TrimSlashes(SubSeq(name, 1, LastSlash(name)))
    IN  IF d = Empty THEN Dot ELSE d

\* path/filepath.Base: the last element, "." for the empty string
Base(name) ==
    IF name = Empty THEN Dot
    ELSE LET t == TrimSlashes(name)
         IN  IF t = Empty THEN <<Slash>> ELSE SubSeq(t, LastSlash(t) + 1, Len(t))

\* path.Join(dir, name) as io/fs.WalkDir uses it: "." joined with x is x
Join(dir, name) == IF dir = Dot THEN name ELSE dir \o <<Slash>> \o name

(***************************************************************************)
(* Input sets.                                                             *)
(***************************************************************************)
Segs == {<<"a">>, <<"b">>}

RECURSIVE JoinAll(_)
\* the segments of ss joined by "/"
JoinAll(ss) ==
    IF Len(ss) = 1 THEN ss[1] ELSE ss[1] \o <<Slash>> \o JoinAll(Tail(ss))

\* the valid inputs: "." and every path of at most MaxDepth segments
GoodPaths ==
    {Dot} \cup {JoinAll(ss) : ss \in UNION {[1..k -> Segs] : k \in 1..MaxDepth}}

\* inputs outside the path grammar: the empty string, a leading slash, a
\* trailing slash, an empty segment, a "." segment, a ".." segment
BadPaths ==
    { Empty,
      <<"/", "a">>,
      <<"a", "/">>,
      <<"a", "/", "/", "b">>,
      <<"a", "/", ".">>,
      <<".", ".", "/", "a">> }

Paths == GoodPaths \cup BadPaths

\* the payloads: k, k-1, ..., 1 for every length k up to MaxData
Datas == {[i \in 1..k |-> k + 1 - i] : k \in 1..MaxData}

\* every ordering of the set S, as sequences
Perms(S) ==
    {f \in [1..Cardinality(S) -> S] : \A i, j \in 1..Cardinality(S) : f[i] = f[j] => i = j}

\* the names of S in increasing byte order
SortNames(S) ==
    CHOOSE f \in Perms(S) : \A i \in 1..(Cardinality(S) - 1) : LessStr(f[i], f[i + 1])

\* every string the operations are given: the inputs and their parents
Strings == Paths \cup {Dir(p) : p \in Paths}

\* ValidPath, Split, Dir and Base over Strings, computed once
ValidPathOf == [name \in Strings |-> ValidPath(name)]
SplitOf == [name \in Strings |-> Split(name)]
DirOf == [name \in Strings |-> Dir(name)]
BaseOf == [name \in Strings |-> Base(name)]

(***************************************************************************)
(* Errors.  `is` is the sentinel errors.Is finds (through PathError's and   *)
(* %w's Unwrap), `msg` the text of an error made on the spot.              *)
(***************************************************************************)
NoErr == [kind |-> "nil", op |-> "", path |-> Empty, is |-> "", seg |-> Empty, msg |-> ""]

\* &fs.PathError{Op: op, Path: path, Err: sentinel}
PathError(op, path, sentinel) ==
    [kind |-> "PathError", op |-> op, path |-> path, is |-> sentinel, seg |-> Empty, msg |-> ""]

\* a sentinel returned bare: fs.ErrInvalid, fs.ErrClosed, io.EOF
Bare(sentinel) ==
    [kind |-> "sentinel", op |-> "", path |-> Empty, is |-> sentinel, seg |-> Empty, msg |-> ""]

\* fmt.Errorf("%q <msg>", part) and fmt.Errorf("%q <msg> %w", part, sentinel)
Errorf(part, msg, sentinel) ==
    [kind |-> "errorf", op |-> "", path |-> Empty, is |-> sentinel, seg |-> part, msg |-> msg]

(***************************************************************************)
(* Nodes.                                                                  *)
(***************************************************************************)
NilNames == [nil |-> TRUE, list |-> << >>]
NoBuffer == [buf |-> << >>, off |-> 0, alias |-> FALSE]

\* &dir{dirEntry: &dirEntry{fileInfo: &fileInfo{name, 0, now, ModeDir|0644}},
\*      entries: make(map)}
NewDir(name, now) ==
    [kind |-> "dir", name |-> name, size |-> 0, modTime |-> now,
     mode |-> [dir |-> TRUE, perm |-> Perm],
     entries |-> << >>, names |-> NilNames, content |-> NoBuffer]

\* NewFile, but the buffer is made over data itself, the slice of the caller
NewFileNoCopy(name, data, now) ==
    [kind |-> "file", name |-> name, size |-> Len(data), modTime |-> now,
     mode |-> [dir |-> FALSE, perm |-> Perm],
     entries |-> << >>, names |-> NilNames,
     content |-> [buf |-> data, off |-> 0, alias |-> TRUE]]

\* buf := make([]byte, len(data)); copy(buf, data);
\* &file{dirEntry: &dirEntry{fileInfo: &fileInfo{name, len(data), now, 0644}},
\*       content: bytes.NewBuffer(buf)}
\* buf is an array of its own that holds the bytes of data; alias tells
\* whether the array of the buffer is the array of the caller's slice
NewFile(name, data, now) ==
    [kind |-> "file", name |-> name, size |-> Len(data), modTime |-> now,
     mode |-> [dir |-> FALSE, perm |-> Perm],
     entries |-> << >>, names |-> NilNames,
     content |-> [buf |-> data, off |-> 0, alias |-> FALSE]]

\* the index of the root in the heap
Root == 1

\* cur.entries[part]: the child, or 0 for a nil entry
Lookup(h, cur, part) ==
    IF part \in DOMAIN h[cur].entries THEN h[cur].entries[part] ELSE 0

\* cur.entries[part] = entry
SetEntry(h, cur, part, entry) ==
    [h EXCEPT ![cur].entries =
        [k \in (DOMAIN h[cur].entries) \cup {part} |->
            IF k = part THEN entry ELSE h[cur].entries[k]]]

(***************************************************************************)
(* The state.                                                              *)
(***************************************************************************)
VARIABLES
    heap,       \* the nodes ever allocated; heap[Root] is fsys.root
    clock,      \* the number of time.Now() calls made so far
    handles,    \* the values Open has returned, in order
    last        \* the latest call: its arguments and what it returned

vars == <<heap, clock, handles, last>>

NoInfo == [name |-> Empty, size |-> 0, modTime |-> 0, mode |-> [dir |-> FALSE, perm |-> 0]]

\* a call record with nothing returned yet
Call(op) ==
    [op |-> op, path |-> Empty, data |-> << >>, h |-> 0, n |-> 0, err |-> NoErr,
     handle |-> 0, bytes |-> << >>, entries |-> << >>, info |-> NoInfo,
     paths |-> << >>, before |-> FALSE, afterClose |-> FALSE]
\* before and afterClose are history.  before: the call just before this one
\* was, for MkdirAll(p), a MkdirAll(p) that returned nil; for WriteFile(p, d),
\* a MkdirAll(DirOf[p]) that returned nil; for ReadDir on a handle, a
\* ReadDir(n <= 0) on that handle.  afterClose: a Close of the handle had
\* returned nil before this call.

(***************************************************************************)
(* Open.                                                                   *)
(***************************************************************************)
OpenNotExist(name) ==
    [err |-> PathError("open", name, "ErrNotExist"), kind |-> "", node |-> 0]

RECURSIVE OpenLoopAnyFile(_, _, _, _, _)
\* OpenLoop, but a file ends the lookup wherever it is met
OpenLoopAnyFile(h, name, parts, i, cur) ==
    IF i > Len(parts) THEN [err |-> NoErr, kind |-> "dir", node |-> cur]
    ELSE LET entry == Lookup(h, cur, parts[i])
         IN  IF entry = 0 THEN OpenNotExist(name)
             ELSE IF h[entry].kind = "file"
                  THEN [err |-> NoErr, kind |-> "file", node |-> entry]
                  ELSE OpenLoopAnyFile(h, name, parts, i + 1, entry)

RECURSIVE OpenLoop(_, _, _, _, _)
\* the loop of Open over parts[i..], standing in directory cur
OpenLoop(h, name, parts, i, cur) ==
    IF i > Len(parts) THEN [err |-> NoErr, kind |-> "dir", node |-> cur]
    ELSE LET entry == Lookup(h, cur, parts[i])
         IN  IF entry = 0 THEN OpenNotExist(name)
             ELSE IF h[entry].kind = "file"
                  THEN IF i = Len(parts)
                       THEN [err |-> NoErr, kind |-> "file", node |-> entry]
                       ELSE OpenNotExist(name)
                  ELSE OpenLoop(h, name, parts, i + 1, entry)

\* what fsys.Open(name) finds: the error, or the kind and the node resolved
OpenRes(h, name) ==
    IF ~ValidPathOf[name]
    THEN [err |-> PathError("open", name, "ErrInvalid"), kind |-> "", node |-> 0]
    ELSE IF name = Dot \/ name = Empty
         THEN [err |-> NoErr, kind |-> "dir", node |-> Root]
         ELSE OpenLoop(h, name, SplitOf[name], 1, Root)

\* the value Open returns for a resolved node: the directory node itself, or
\* a new file sharing the node's dirEntry, with a bytes.Buffer over
\* f.content.Bytes(), the unread part of the node's backing array.
\* path, snap, got and wasClosed are history: the name the handle was opened
\* by, the content of the file then, the bytes Read has returned since, and
\* whether a Close of it has returned nil
NewHandle(h, r) ==
    IF r.kind = "dir"
    THEN [kind |-> "dir", node |-> r.node,
          content |-> [arr |-> 0, base |-> 0, len |-> 0, off |-> 0],
          closed |-> FALSE,
          path |-> Empty, snap |-> << >>, got |-> << >>, wasClosed |-> FALSE]
    ELSE LET c == h[r.node].content
         IN  [kind |-> "file", node |-> r.node,
              content |-> [arr |-> r.node, base |-> c.off,
                           len |-> Len(c.buf) - c.off, off |-> 0],
              closed |-> FALSE,
              path |-> Empty, snap |-> SubSeq(c.buf, c.off + 1, Len(c.buf)),
              got |-> << >>, wasClosed |-> FALSE]

Open(name) ==
    LET r == OpenRes(heap, name)
    IN  /\ handles' = IF r.err = NoErr
                      THEN Append(handles, [NewHandle(heap, r) EXCEPT !.path = name])
                      ELSE handles
        /\ last' = [Call("open") EXCEPT !.path = name, !.err = r.err,
                        !.handle = IF r.err = NoErr THEN Len(handles) + 1 ELSE 0]
        /\ UNCHANGED <<heap, clock>>

(***************************************************************************)
(* MkdirAll.                                                               *)
(***************************************************************************)
RECURSIVE MkdirLoopTouch(_, _, _, _, _)
\* MkdirLoop, but a directory that exists has its modTime set to now
MkdirLoopTouch(h, now, parts, i, cur) ==
    IF i > Len(parts) THEN [heap |-> h, clock |-> now, err |-> NoErr]
    ELSE LET part == parts[i]
             entry == Lookup(h, cur, part)
         IN  IF entry = 0
             THEN LET new == Len(h) + 1
                      h1 == SetEntry(Append(h, NewDir(part, now + 1)), cur, part, new)
                  IN  MkdirLoopTouch(h1, now + 1, parts, i + 1, new)
             ELSE IF h[entry].kind # "dir"
                  THEN [heap |-> h, clock |-> now,
                        err |-> Errorf(part, "is not directory", "")]
                  ELSE MkdirLoopTouch([h EXCEPT ![entry].modTime = now + 1], now + 1,
                                      parts, i + 1, entry)

RECURSIVE MkdirLoopReplace(_, _, _, _, _)
\* MkdirLoop, but a file in the way is replaced by a new directory
MkdirLoopReplace(h, now, parts, i, cur) ==
    IF i > Len(parts) THEN [heap |-> h, clock |-> now, err |-> NoErr]
    ELSE LET part == parts[i]
             entry == Lookup(h, cur, part)
         IN  IF entry = 0 \/ h[entry].kind # "dir"
             THEN LET new == Len(h) + 1
                      h1 == SetEntry(Append(h, NewDir(part, now + 1)), cur, part, new)
                  IN  MkdirLoopReplace(h1, now + 1, parts, i + 1, new)
             ELSE MkdirLoopReplace(h, now, parts, i + 1, entry)

RECURSIVE MkdirLoop(_, _, _, _, _)
\* the loop of MkdirAll over parts[i..], standing in directory cur; now is
\* the number of time.Now() calls made before this iteration
MkdirLoop(h, now, parts, i, cur) ==
    IF i > Len(parts) THEN [heap |-> h, clock |-> now, err |-> NoErr]
    ELSE LET part == parts[i]
             entry == Lookup(h, cur, part)
         IN  IF entry = 0
             THEN LET new == Len(h) + 1
                      h1 == SetEntry(Append(h, NewDir(part, now + 1)), cur, part, new)
                  IN  MkdirLoop(h1, now + 1, parts, i + 1, new)
             ELSE IF h[entry].kind # "dir"
                  THEN [heap |-> h, clock |-> now,
                        err |-> Errorf(part, "is not directory", "")]
                  ELSE MkdirLoop(h, now, parts, i + 1, entry)

\* MkdirAllRes, but the path is checked segment by segment while walking: a
\* path outside the grammar has its first segment created, where that one is
\* well formed, before the call fails
MkdirAllResLateCheck(h, now, path) ==
    IF ~ValidPathOf[path]
    THEN IF SplitOf[path][1] \in Segs
         THEN LET r == MkdirLoop(h, now, <<SplitOf[path][1]>>, 1, Root)
              IN  [heap |-> r.heap, clock |-> r.clock, err |-> Bare("ErrInvalid")]
         ELSE [heap |-> h, clock |-> now, err |-> Bare("ErrInvalid")]
    ELSE IF path = Dot THEN [heap |-> h, clock |-> now, err |-> NoErr]
    ELSE MkdirLoop(h, now, SplitOf[path], 1, Root)

\* fsys.MkdirAll(path): the heap and clock it leaves and the error it returns
MkdirAllRes(h, now, path) ==
    IF ~ValidPathOf[path] THEN [heap |-> h, clock |-> now, err |-> Bare("ErrInvalid")]
    ELSE IF path = Dot THEN [heap |-> h, clock |-> now, err |-> NoErr]
    ELSE MkdirLoop(h, now, SplitOf[path], 1, Root)

MkdirAll(path) ==
    LET r == MkdirAllRes(heap, clock, path)
    IN  /\ heap' = r.heap
        /\ clock' = r.clock
        /\ last' = [Call("mkdir") EXCEPT !.path = path, !.err = r.err,
                        !.before = (last.op = "mkdir" /\ last.path = path
                                        /\ last.err = NoErr)]
        /\ UNCHANGED handles

(***************************************************************************)
(* WriteFile.                                                              *)
(***************************************************************************)
RECURSIVE GetDirLoopAnyKind(_, _, _, _)
\* GetDirLoop, but without the check that the entry is a directory
GetDirLoopAnyKind(h, parts, i, cur) ==
    IF i > Len(parts) THEN [err |-> NoErr, node |-> cur]
    ELSE LET part == parts[i]
             entry == Lookup(h, cur, part)
         IN  IF entry = 0
             THEN [err |-> Errorf(part, "is not exist", "ErrNotExist"), node |-> 0]
             ELSE GetDirLoopAnyKind(h, parts, i + 1, entry)

RECURSIVE GetDirLoop(_, _, _, _)
\* the loop of getDir over parts[i..], standing in directory cur
GetDirLoop(h, parts, i, cur) ==
    IF i > Len(parts) THEN [err |-> NoErr, node |-> cur]
    ELSE LET part == parts[i]
             entry == Lookup(h, cur, part)
         IN  IF entry = 0
             THEN [err |-> Errorf(part, "is not exist", "ErrNotExist"), node |-> 0]
             ELSE IF h[entry].kind # "dir"
                  THEN [err |-> Errorf(part, "is not directory", "ErrNotExist"),
                        node |-> 0]
                  ELSE GetDirLoop(h, parts, i + 1, entry)

\* fsys.getDir(path)
GetDir(h, path) == GetDirLoop(h, SplitOf[path], 1, Root)

\* WriteFileRes, but a directory at name is not replaced: the call fails
WriteFileResKeepDir(h, now, name, data) ==
    IF ~ValidPathOf[name]
    THEN [heap |-> h, clock |-> now, err |-> PathError("write", name, "ErrInvalid")]
    ELSE LET path == DirOf[name]
             d == IF path # Dot THEN GetDir(h, path) ELSE [err |-> NoErr, node |-> Root]
         IN  IF d.err # NoErr THEN [heap |-> h, clock |-> now, err |-> d.err]
             ELSE LET filename == BaseOf[name]
                      new == Len(h) + 1
                      old == Lookup(h, d.node, filename)
                  IN  IF old # 0 /\ h[old].kind = "dir"
                      THEN [heap |-> h, clock |-> now,
                            err |-> Errorf(filename, "is a directory", "")]
                      ELSE [heap |-> SetEntry(Append(h, NewFile(filename, data, now + 1)),
                                              d.node, filename, new),
                            clock |-> now + 1, err |-> NoErr]

\* WriteFileRes, but a file at name that is large enough is written in place:
\* its backing array takes data over its first bytes
WriteFileResInPlace(h, now, name, data) ==
    IF ~ValidPathOf[name]
    THEN [heap |-> h, clock |-> now, err |-> PathError("write", name, "ErrInvalid")]
    ELSE LET path == DirOf[name]
             d == IF path # Dot THEN GetDir(h, path) ELSE [err |-> NoErr, node |-> Root]
         IN  IF d.err # NoErr THEN [heap |-> h, clock |-> now, err |-> d.err]
             ELSE LET filename == BaseOf[name]
                      new == Len(h) + 1
                      old == Lookup(h, d.node, filename)
                  IN  IF old # 0 /\ h[old].kind = "file"
                            /\ Len(data) <= Len(h[old].content.buf)
                      THEN LET b == h[old].content.buf
                           IN  [heap |-> [h EXCEPT
                                    ![old].content.buf =
                                        data \o SubSeq(b, Len(data) + 1, Len(b)),
                                    ![old].size = Len(data)],
                                clock |-> now, err |-> NoErr]
                      ELSE [heap |-> SetEntry(Append(h, NewFile(filename, data, now + 1)),
                                              d.node, filename, new),
                            clock |-> now + 1, err |-> NoErr]

\* WriteFileRes, but a file that is overwritten hands its modTime on to the
\* file that replaces it
WriteFileResKeepTime(h, now, name, data) ==
    IF ~ValidPathOf[name]
    THEN [heap |-> h, clock |-> now, err |-> PathError("write", name, "ErrInvalid")]
    ELSE LET path == DirOf[name]
             d == IF path # Dot THEN GetDir(h, path) ELSE [err |-> NoErr, node |-> Root]
         IN  IF d.err # NoErr THEN [heap |-> h, clock |-> now, err |-> d.err]
             ELSE LET filename == BaseOf[name]
                      new == Len(h) + 1
                      old == Lookup(h, d.node, filename)
                      t == IF old # 0 /\ h[old].kind = "file"
                           THEN h[old].modTime ELSE now + 1
                  IN  [heap |-> SetEntry(Append(h, NewFile(filename, data, t)),
                                         d.node, filename, new),
                       clock |-> now + 1, err |-> NoErr]

\* fsys.WriteFile(name, data): the heap and clock it leaves, the error
WriteFileRes(h, now, name, data) ==
    IF ~ValidPathOf[name]
    THEN [heap |-> h, clock |-> now, err |-> PathError("write", name, "ErrInvalid")]
    ELSE LET path == DirOf[name]
             d == IF path # Dot THEN GetDir(h, path) ELSE [err |-> NoErr, node |-> Root]
         IN  IF d.err # NoErr THEN [heap |-> h, clock |-> now, err |-> d.err]
             ELSE LET filename == BaseOf[name]
                      new == Len(h) + 1
                  IN  [heap |-> SetEntry(Append(h, NewFile(filename, data, now + 1)),
                                         d.node, filename, new),
                       clock |-> now + 1, err |-> NoErr]

\* WriteFile, but the buffers of the file handles opened by name are emptied,
\* as if the handles read the file of the tree and the write truncated it
WriteFileTruncating(name, data) ==
    LET r == WriteFileRes(heap, clock, name, data)
    IN  /\ heap' = r.heap
        /\ clock' = r.clock
        /\ last' = [Call("write") EXCEPT !.path = name, !.data = data, !.err = r.err,
                        !.before = (ValidPathOf[name] /\ last.op = "mkdir"
                                        /\ last.path = DirOf[name] /\ last.err = NoErr)]
        /\ handles' = [i \in 1..Len(handles) |->
                          IF r.err = NoErr /\ handles[i].kind = "file"
                                /\ handles[i].path = name
                          THEN [handles[i] EXCEPT !.content.len = 0, !.content.off = 0]
                          ELSE handles[i]]

WriteFile(name, data) ==
    LET r == WriteFileRes(heap, clock, name, data)
    IN  /\ heap' = r.heap
        /\ clock' = r.clock
        /\ last' = [Call("write") EXCEPT !.path = name, !.data = data, !.err = r.err,
                        !.before = (ValidPathOf[name] /\ last.op = "mkdir"
                                        /\ last.path = DirOf[name] /\ last.err = NoErr)]
        /\ UNCHANGED handles

\* the values a byte of the caller's slice is given
Bytes == 0..MaxData

\* the caller, who still holds the slice data it gave to the latest
\* WriteFile, stores b into data[i]: the store reaches the array of the file
\* that call allocated where that array is the one of the slice.  The
\* slice as it is now is last.data
Scribble(i, b) ==
    /\ last.op \in {"write", "scribble"}
    /\ i \in 1..Len(last.data)
    /\ b # last.data[i]
    /\ heap' = IF last.err = NoErr /\ heap[Len(heap)].content.alias
                THEN [heap EXCEPT ![Len(heap)].content.buf[i] = b]
                ELSE heap
    /\ last' = [last EXCEPT !.op = "scribble", !.data[i] = b, !.before = FALSE]
    /\ UNCHANGED <<clock, handles>>

(***************************************************************************)
(* Handle methods.                                                         *)
(***************************************************************************)
Min(a, b) == IF a < b THEN a ELSE b

\* de.Info(): the node's fileInfo
Info(node) ==
    [name |-> node.name, size |-> node.size, modTime |-> node.modTime, mode |-> node.mode]

\* bytes.Buffer.Len() of a handle's buffer
BufLen(c) == c.len - c.off

\* bytes.Buffer.Read(p) with len(p) = k on a handle's buffer c over the heap h:
\* an empty buffer is Reset and answers io.EOF (nil for an empty p), else the
\* next min(k, Len()) bytes are copied out and off moves past them
BufferRead(h, c, k) ==
    IF c.len <= c.off
    THEN [content |-> [c EXCEPT !.len = 0, !.off = 0], bytes |-> << >>,
          err |-> IF k = 0 THEN NoErr ELSE Bare("EOF")]
    ELSE LET n == Min(k, c.len - c.off)
             lo == c.base + c.off
         IN  [content |-> [c EXCEPT !.off = c.off + n],
              bytes |-> SubSeq(h[c.arr].content.buf, lo + 1, lo + n),
              err |-> NoErr]

\* f.Read(p) / d.Read(p) on handle x, len(p) = k
ReadRes(h, x, k) ==
    IF x.kind = "dir"
    THEN [handle |-> x, bytes |-> << >>,
          err |-> [PathError("read", h[x.node].name, "") EXCEPT !.msg = "is directory"]]
    ELSE IF x.closed THEN [handle |-> x, bytes |-> << >>, err |-> Bare("ErrClosed")]
    ELSE LET r == BufferRead(h, x.content, k)
         IN  [handle |-> [x EXCEPT !.content = r.content, !.got = x.got \o r.bytes],
              bytes |-> r.bytes, err |-> r.err]

\* Read, but the handles of one node share one cursor, as if Open returned
\* the file of the tree itself
ReadSharedCursor(i, k) ==
    LET r == ReadRes(heap, handles[i], k)
    IN  /\ handles' = [j \in 1..Len(handles) |->
                          IF j = i THEN r.handle
                          ELSE IF handles[j].kind = "file" /\ handles[i].kind = "file"
                                    /\ handles[j].node = handles[i].node
                               THEN [handles[j] EXCEPT !.content = r.handle.content]
                               ELSE handles[j]]
        /\ last' = [Call("read") EXCEPT !.h = i, !.n = k, !.err = r.err,
                        !.bytes = r.bytes, !.afterClose = handles[i].wasClosed]
        /\ UNCHANGED <<heap, clock>>

Read(i, k) ==
    LET r == ReadRes(heap, handles[i], k)
    IN  /\ handles' = [handles EXCEPT ![i] = r.handle]
        /\ last' = [Call("read") EXCEPT !.h = i, !.n = k, !.err = r.err,
                        !.bytes = r.bytes, !.afterClose = handles[i].wasClosed]
        /\ UNCHANGED <<heap, clock>>

\* f.Stat() / d.Stat() on handle x: the file's Stat stores the handle's
\* buffer length into the fileInfo it shares with the node
StatRes(h, x) ==
    IF x.kind = "dir" THEN [heap |-> h, info |-> Info(h[x.node]), err |-> NoErr]
    ELSE IF x.closed THEN [heap |-> h, info |-> NoInfo, err |-> Bare("ErrClosed")]
    ELSE LET h1 == [h EXCEPT ![x.node].size = BufLen(x.content)]
         IN  [heap |-> h1, info |-> Info(h1[x.node]), err |-> NoErr]

Stat(i) ==
    LET r == StatRes(heap, handles[i])
    IN  /\ heap' = r.heap
        /\ last' = [Call("stat") EXCEPT !.h = i, !.err = r.err, !.info = r.info,
                        !.afterClose = handles[i].wasClosed]
        /\ UNCHANGED <<clock, handles>>

\* CloseRes, but the file is not marked closed
CloseResNoMark(x) ==
    IF x.kind = "dir" THEN [handle |-> x, err |-> NoErr]
    ELSE IF x.closed THEN [handle |-> x, err |-> Bare("ErrClosed")]
    ELSE [handle |-> x, err |-> NoErr]

\* f.Close() / d.Close() on handle x
CloseRes(x) ==
    IF x.kind = "dir" THEN [handle |-> x, err |-> NoErr]
    ELSE IF x.closed THEN [handle |-> x, err |-> Bare("ErrClosed")]
    ELSE [handle |-> [x EXCEPT !.closed = TRUE], err |-> NoErr]

Close(i) ==
    LET r == CloseRes(handles[i])
    IN  /\ handles' = [handles EXCEPT ![i] =
                          [r.handle EXCEPT !.wasClosed = @ \/ r.err = NoErr]]
        /\ last' = [Call("close") EXCEPT !.h = i, !.err = r.err,
                        !.afterClose = handles[i].wasClosed]
        /\ UNCHANGED <<heap, clock>>

\* d.ReadDir(n) on directory node d of heap h; order is the order in which
\* `for name := range d.entries` yields the names when the snapshot is taken
ReadDirRes(h, d, n, order) ==
    LET names == IF h[d].names.nil THEN order ELSE h[d].names.list
        n1 == IF n <= 0 THEN Len(names) ELSE n
    IN  [entries |-> [i \in 1..Min(n1, Len(names)) |-> Lookup(h, d, names[i])],
         names |-> IF n1 < Len(names)
                   THEN [nil |-> FALSE, list |-> SubSeq(names, n1 + 1, Len(names))]
                   ELSE NilNames]

ReadDir(i, n) ==
    /\ handles[i].kind = "dir"
    /\ LET d == handles[i].node
       IN  \E order \in Perms(DOMAIN heap[d].entries) :
             LET r == ReadDirRes(heap, d, n, order)
             IN  /\ heap' = [heap EXCEPT ![d].names = r.names]
                 /\ last' = [Call("readdir") EXCEPT !.h = i, !.n = n,
                                 !.entries = r.entries,
                                 !.before = (last.op = "readdir" /\ last.h = i
                                                /\ last.n <= 0)]
    /\ UNCHANGED <<clock, handles>>

(***************************************************************************)
(* A walk of the tree as io/fs.WalkDir makes it with the public            *)
(* operations: visit a name, and for a directory Open it, ReadDir(-1),     *)
(* sort the entries by name and walk each.                                 *)
(***************************************************************************)
\* the entries es ordered by their names
SortEntries(h, es) ==
    LET ns == SortNames({h[es[i]].name : i \in 1..Len(es)})
    IN  [i \in 1..Len(ns) |-> CHOOSE e \in {es[j] : j \in 1..Len(es)} : h[e].name = ns[i]]

RECURSIVE WalkDir(_, _, _)
RECURSIVE WalkList(_, _, _, _)
\* walkDir(fsys, name, d, fn): the heap it leaves and the names it visited
WalkDir(h, name, d) ==
    IF ~h[d].mode.dir THEN [heap |-> h, visited |-> <<name>>]
    ELSE LET o == OpenRes(h, name)
         IN  IF o.err # NoErr \/ o.kind # "dir" THEN [heap |-> h, visited |-> <<name>>]
             ELSE LET rd == ReadDirRes(h, o.node, -1,
                                       SortNames(DOMAIN h[o.node].entries))
                      h1 == [h EXCEPT ![o.node].names = rd.names]
                      r == WalkList(h1, name, SortEntries(h1, rd.entries), 1)
                  IN  [heap |-> r.heap, visited |-> <<name>> \o r.visited]

\* the loop of walkDir over the entries list[i..] of directory name
WalkList(h, name, list, i) ==
    IF i > Len(list) THEN [heap |-> h, visited |-> << >>]
    ELSE LET r1 == WalkDir(h, Join(name, h[list[i]].name), list[i])
             r2 == WalkList(r1.heap, name, list, i + 1)
         IN  [heap |-> r2.heap, visited |-> r1.visited \o r2.visited]

Walk ==
    LET r == WalkDir(heap, Dot, OpenRes(heap, Dot).node)
    IN  /\ heap' = r.heap
        /\ last' = [Call("walk") EXCEPT !.path = Dot, !.paths = r.visited]
        /\ UNCHANGED <<clock, handles>>

(***************************************************************************)
(* io/fs.ReadFile(fsys, name), as the tests read a file back: Open, Stat   *)
(* for the size, Read into a buffer of size+1 bytes until an error, Close. *)
(***************************************************************************)
RECURSIVE ReadToEOF(_, _, _, _)
\* the read loop of fs.ReadFile on handle x: data read so far, capacity cap
ReadToEOF(h, x, data, cap) ==
    LET cap1 == IF Len(data) >= cap THEN cap + 1 ELSE cap
        r == ReadRes(h, x, cap1 - Len(data))
    IN  IF r.err # NoErr
        THEN [bytes |-> data \o r.bytes,
              err |-> IF r.err = Bare("EOF") THEN NoErr ELSE r.err]
        ELSE ReadToEOF(h, r.handle, data \o r.bytes, cap1)

\* fs.ReadFile(fsys, name): the heap it leaves, the bytes and the error
ReadFileRes(h, name) ==
    LET o == OpenRes(h, name)
    IN  IF o.err # NoErr THEN [heap |-> h, bytes |-> << >>, err |-> o.err]
        ELSE LET x == NewHandle(h, o)
                 st == StatRes(h, x)
                 size == IF st.err = NoErr THEN st.info.size ELSE 0
                 r == ReadToEOF(st.heap, x, << >>, size + 1)
             IN  [heap |-> st.heap, bytes |-> r.bytes, err |-> r.err]

ReadFile(name) ==
    LET r == ReadFileRes(heap, name)
    IN  /\ heap' = r.heap
        /\ last' = [Call("readfile") EXCEPT !.path = name, !.err = r.err,
                        !.bytes = r.bytes]
        /\ UNCHANGED <<clock, handles>>

(***************************************************************************)
(* The specifications.  Spec: the tree under MkdirAll, WriteFile, ReadFile *)
(* and the walk, over every input path.  SpecH: the handles Open returns   *)
(* and their methods, over the valid paths.                                *)
(***************************************************************************)
\* New(): a root directory named ".", no handle yet
Init ==
    /\ heap = <<NewDir(Dot, 1)>>
    /\ clock = 1
    /\ handles = << >>
    /\ last = Call("new")

DoMkdirAll == \E path \in Paths : MkdirAll(path) /\ Len(heap') <= MaxNodes
DoWriteFile ==
    \E name \in Paths, data \in Datas : WriteFile(name, data) /\ Len(heap') <= MaxNodes
DoReadFile == \E name \in Paths : ReadFile(name)
DoWalk == Walk

Next ==
    \/ DoMkdirAll
    \/ DoWriteFile
    \/ DoReadFile
    \/ DoWalk

Spec == Init /\ [][Next]_vars

HOpen == \E name \in GoodPaths : Open(name) /\ Len(handles') <= MaxHandles
HMkdirAll == \E path \in GoodPaths : MkdirAll(path) /\ Len(heap') <= HMaxNodes
HWriteFile ==
    \E name \in GoodPaths, data \in Datas : WriteFile(name, data) /\ Len(heap') <= HMaxNodes
HRead == \E i \in 1..Len(handles), k \in 0..MaxRead : Read(i, k)
HStat == \E i \in 1..Len(handles) : Stat(i)
HClose == \E i \in 1..Len(handles) : Close(i)
HReadDir == \E i \in 1..Len(handles), n \in (-1)..MaxBatch : ReadDir(i, n)
HWalk == Walk

NextH ==
    \/ HOpen
    \/ HMkdirAll
    \/ HWriteFile
    \/ HRead
    \/ HStat
    \/ HClose
    \/ HReadDir
    \/ HWalk

SpecH == Init /\ [][NextH]_vars

\* SpecP: two handles that may stand on the same path, over the root and its
\* children
PPaths == {Dot} \cup Segs
POpen == \E name \in PPaths : Open(name) /\ Len(handles') <= PMaxHandles
PMkdirAll == \E path \in Segs : MkdirAll(path) /\ Len(heap') <= PMaxNodes
PWriteFile ==
    \E name \in Segs, data \in Datas : WriteFile(name, data) /\ Len(heap') <= PMaxNodes
PRead == \E i \in 1..Len(handles), k \in 0..MaxRead : Read(i, k)
PStat == \E i \in 1..Len(handles) : Stat(i)
PClose == \E i \in 1..Len(handles) : Close(i)
PReadDir == \E i \in 1..Len(handles), n \in (-1)..MaxBatch : ReadDir(i, n)

NextP ==
    \/ POpen
    \/ PMkdirAll
    \/ PWriteFile
    \/ PRead
    \/ PStat
    \/ PClose
    \/ PReadDir

SpecP == Init /\ [][NextP]_vars

\* SpecC: the caller keeps the slice it gave to WriteFile and writes to it
CMkdirAll == \E path \in Segs : MkdirAll(path) /\ Len(heap') <= HMaxNodes
CWriteFile ==
    \E name \in GoodPaths, data \in Datas : WriteFile(name, data) /\ Len(heap') <= HMaxNodes
CScribble == \E i \in 1..MaxData, b \in Bytes : Scribble(i, b)
CReadFile == \E name \in GoodPaths : ReadFile(name)

NextC ==
    \/ CMkdirAll
    \/ CWriteFile
    \/ CScribble
    \/ CReadFile

SpecC == Init /\ [][NextC]_vars

(***************************************************************************)
(* The vocabulary of the properties: what a path denotes in a heap,        *)
(* stated on the tree and not by the operations.                           *)
(***************************************************************************)
RECURSIVE NodeAtFrom(_, _, _)
\* the node the segments segs lead to from node cur; 0 when a segment is
\* missing or a file is in the way
NodeAtFrom(h, cur, segs) ==
    IF segs = << >> THEN cur
    ELSE IF h[cur].kind # "dir" \/ Head(segs) \notin DOMAIN h[cur].entries THEN 0
    ELSE NodeAtFrom(h, h[cur].entries[Head(segs)], Tail(segs))

\* the node the valid path p denotes, 0 when it denotes none
NodeAt(h, p) == IF p = Dot THEN Root ELSE NodeAtFrom(h, Root, SplitOf[p])

\* the node the first k segments of p denote
PrefixNode(h, p, k) == NodeAtFrom(h, Root, SubSeq(SplitOf[p], 1, k))

\* some segment of parent(p) is missing or is a file
ParentBroken(h, p) ==
    \E k \in 1..(Len(SplitOf[p]) - 1) :
        PrefixNode(h, p, k) = 0 \/ h[PrefixNode(h, p, k)].kind = "file"

\* the segments of p that resolve to a file (at most one does)
FileSegs(h, p) ==
    {k \in 1..Len(SplitOf[p]) :
        PrefixNode(h, p, k) # 0 /\ h[PrefixNode(h, p, k)].kind = "file"}

\* q is a path strictly below p
Below(p, q) ==
    IF p = Dot THEN q # Dot
    ELSE Len(q) > Len(p) /\ SubSeq(q, 1, Len(p) + 1) = p \o <<Slash>>

RECURSIVE NodesUnder(_, _)
\* the nodes of the tree under node n, n included
NodesUnder(h, n) ==
    {n} \cup UNION {NodesUnder(h, h[n].entries[k]) : k \in DOMAIN h[n].entries}

RECURSIVE PathsUnder(_, _, _)
\* the paths of the nodes of the tree under node n, whose path is p
PathsUnder(h, n, p) ==
    {p} \cup UNION {PathsUnder(h, h[n].entries[k], Join(p, k)) : k \in DOMAIN h[n].entries}

\* s is a prefix of t
IsPrefix(s, t) == Len(s) <= Len(t) /\ SubSeq(t, 1, Len(s)) = s

\* what Open(p) and then Read, one byte at a time until it fails, return
ReadBack(h, p) ==
    LET o == OpenRes(h, p)
    IN  IF o.err # NoErr THEN [kind |-> "", bytes |-> << >>, err |-> o.err]
        ELSE LET r == ReadToEOF(h, NewHandle(h, o), << >>, 1)
             IN  [kind |-> o.kind, bytes |-> r.bytes, err |-> r.err]

(***************************************************************************)
(* The properties.                                                         *)
(***************************************************************************)

\* C1 (as claimed): after MkdirAll(parent(p)) has succeeded and WriteFile(p, d)
\* right after it has succeeded, Open(p) succeeds and reading the handle to
\* exhaustion yields exactly d.  Fails for p = ".": WriteFile(".", d) stores d
\* under the root as a child named "." while Open(".") returns the root.
C1_RoundTrip ==
    (last.op = "write" /\ last.before /\ last.err = NoErr) =>
        ReadBack(heap, last.path) = [kind |-> "file", bytes |-> last.data, err |-> NoErr]

\* C2: a WriteFile(p, d) with a missing or file segment in parent(p) fails
\* with an error that is ErrNotExist, leaves the heap as it was, and Open(p)
\* then fails with ErrNotExist too.
C2_MissingParent ==
    [][(/\ last'.op = "write"
        /\ ValidPathOf[last'.path]
        /\ ParentBroken(heap, last'.path)) =>
            /\ last'.err.is = "ErrNotExist"
            /\ heap' = heap
            /\ OpenRes(heap', last'.path).err
                  = PathError("open", last'.path, "ErrNotExist")]_vars

\* a WriteFile below a file has been refused
C2_Witness ==
    /\ last.op = "write"
    /\ last.err = Errorf(SplitOf[last.path][1], "is not directory", "ErrNotExist")
    /\ heap[PrefixNode(heap, last.path, 1)].kind = "file"

\* C3 (as claimed, on trees where the root has no child named "."): a walk
\* from the root by Open and ReadDir(-1) visits every path of the tree, each
\* once, a directory before what is below it.  Fails after a ReadDir that
\* consumed a part of a directory's names: the walk's ReadDir on the same
\* node returns the rest only.
C3_WalkComplete ==
    (last.op = "walk" /\ Dot \notin DOMAIN heap[Root].entries) =>
        /\ {last.paths[i] : i \in 1..Len(last.paths)} = PathsUnder(heap, Root, Dot)
        /\ \A i, j \in 1..Len(last.paths) :
              /\ last.paths[i] = last.paths[j] => i = j
              /\ Below(last.paths[i], last.paths[j]) => i < j

\* C4: the bytes a file handle has returned, followed by the bytes its
\* remaining Reads return, are the content of the file when it was opened,
\* whatever has been written since.
C4_HandleIsolation ==
    \A i \in 1..Len(handles) :
        handles[i].kind = "file" =>
            IF handles[i].closed THEN IsPrefix(handles[i].got, handles[i].snap)
            ELSE handles[i].got \o ReadToEOF(heap, handles[i], << >>, 1).bytes
                    = handles[i].snap

\* a handle has returned bytes of the old content after its path was
\* overwritten with another content
C4_Witness ==
    /\ last.op = "read"
    /\ last.bytes # << >>
    /\ handles[last.h].kind = "file"
    /\ NodeAt(heap, handles[last.h].path) \notin {0, handles[last.h].node}
    /\ heap[NodeAt(heap, handles[last.h].path)].kind = "file"
    /\ heap[NodeAt(heap, handles[last.h].path)].content.buf # handles[last.h].snap

C6_ExhaustedStaysEmpty ==
    (last.op = "readdir" /\ last.before) => last.entries = << >>

\* C7: a MkdirAll(p) that follows a MkdirAll(p) that succeeded succeeds and
\* leaves every node, modTime included, as it was.
C7_MkdirAllIdempotent ==
    [][(last'.op = "mkdir" /\ last'.before) =>
            (last'.err = NoErr /\ heap' = heap)]_vars

\* MkdirAll has succeeded twice in a row on a path of two segments
C7_Witness ==
    /\ last.op = "mkdir"
    /\ last.before
    /\ last.err = NoErr
    /\ Len(SplitOf[last.path]) = 2

\* C8: a MkdirAll(p) where a segment of p resolves to a file fails with the
\* "is not directory" error naming that segment, and the file stays where it
\* was with its content.
C8_TypeConflict ==
    [][(/\ last'.op = "mkdir"
        /\ ValidPathOf[last'.path]
        /\ last'.path # Dot
        /\ FileSegs(heap, last'.path) # {}) =>
            \A k \in FileSegs(heap, last'.path) :
                /\ last'.err = Errorf(SplitOf[last'.path][k], "is not directory", "")
                /\ PrefixNode(heap', last'.path, k) = PrefixNode(heap, last'.path, k)
                /\ heap'[PrefixNode(heap, last'.path, k)]
                      = heap[PrefixNode(heap, last'.path, k)]]_vars

\* a MkdirAll has been refused at a file that is its second segment
C8_Witness ==
    /\ last.op = "mkdir"
    /\ Len(SplitOf[last.path]) = 2
    /\ last.err = Errorf(SplitOf[last.path][2], "is not directory", "")
    /\ NodeAt(heap, last.path) # 0
    /\ heap[NodeAt(heap, last.path)].kind = "file"

\* C9: a WriteFile(p, d) on a p, not ".", that resolves to a directory
\* succeeds; then Open(p) returns a file that reads exactly d, and Open of
\* every path below p fails with ErrNotExist.
C9_OverwriteDirectory ==
    [][(/\ last'.op = "write"
        /\ ValidPathOf[last'.path]
        /\ last'.path # Dot
        /\ NodeAt(heap, last'.path) # 0
        /\ heap[NodeAt(heap, last'.path)].kind = "dir") =>
            /\ last'.err = NoErr
            /\ ReadBack(heap', last'.path)
                  = [kind |-> "file", bytes |-> last'.data, err |-> NoErr]
            /\ \A q \in GoodPaths :
                  Below(last'.path, q) =>
                      OpenRes(heap', q).err = PathError("open", q, "ErrNotExist")]_vars

\* a WriteFile has replaced a directory that had a child
C9_Witness ==
    /\ last.op = "write"
    /\ last.err = NoErr
    /\ NodeAt(heap, last.path) = Len(heap)
    /\ \E n \in 1..Len(heap) :
          /\ n \notin NodesUnder(heap, Root)
          /\ heap[n].kind = "dir"
          /\ heap[n].name = BaseOf[last.path]
          /\ DOMAIN heap[n].entries # {}

\* the operation name an error of the call carries
OpName(op) ==
    CASE op = "readfile" -> "open" [] op = "mkdir" -> "mkdir" [] op = "write" -> "write"

\* C10 (as claimed): Open, MkdirAll and WriteFile given a path outside the
\* grammar fail with ErrInvalid in an error that carries the operation and
\* the path.  Fails for MkdirAll, which returns ErrInvalid bare.
C10_InvalidPathTagged ==
    (last.op \in {"readfile", "mkdir", "write"} /\ ~ValidPathOf[last.path]) =>
        last.err = PathError(OpName(last.op), last.path, "ErrInvalid")

\* some segment of p is missing from its parent directory, or a segment of p
\* that is not the last resolves to a file
LookupFails(h, p) ==
    \E k \in 1..Len(SplitOf[p]) :
        \/ PrefixNode(h, p, k) = 0
        \/ k < Len(SplitOf[p]) /\ h[PrefixNode(h, p, k)].kind = "file"

\* C11: for every valid path p other than ".", Open(p) fails with the
\* PathError of "open", p and ErrNotExist exactly when a segment of p is
\* missing or a segment before the last is a file; otherwise it succeeds and
\* resolves the node p denotes, a file handle for a file and a directory
\* handle for a directory.  The Open call just made has answered so.
C11_OpenLookup ==
    /\ \A p \in GoodPaths \ {Dot} :
          IF LookupFails(heap, p)
          THEN OpenRes(heap, p) = OpenNotExist(p)
          ELSE OpenRes(heap, p)
                  = [err |-> NoErr, kind |-> heap[NodeAt(heap, p)].kind,
                     node |-> NodeAt(heap, p)]
    /\ (last.op = "open" /\ last.path # Dot) =>
          IF LookupFails(heap, last.path)
          THEN last.err = PathError("open", last.path, "ErrNotExist") /\ last.handle = 0
          ELSE /\ last.err = NoErr
               /\ last.handle = Len(handles)
               /\ handles[last.handle].kind = heap[NodeAt(heap, last.path)].kind

\* an Open of a path whose first segment is a file and whose second segment
\* is therefore missing has failed with ErrNotExist
C11_Witness ==
    /\ last.op = "open"
    /\ Len(SplitOf[last.path]) = 2
    /\ PrefixNode(heap, last.path, 1) # 0
    /\ heap[PrefixNode(heap, last.path, 1)].kind = "file"
    /\ last.err = PathError("open", last.path, "ErrNotExist")

\* the set of entries that ReadDir(-1) on the directory handle x returns in
\* heap h
ListedBy(h, x) ==
    UNION {LET es == ReadDirRes(h, x.node, -1, order).entries
           IN  {{es[k] : k \in 1..Len(es)}} : order \in Perms(DOMAIN h[x.node].entries)}

\* C12 (as claimed): where two handles come from two Open calls on the same
\* directory path, a ReadDir on one of them leaves the set of entries that
\* ReadDir returns on the other as it was.  Fails: Open returns the
\* directory node itself, so both handles consume the same names.
C12_PrivateEnumeration ==
    [][last'.op = "readdir" =>
          \A j \in 1..Len(handles) :
              (/\ j # last'.h
               /\ handles[j].kind = "dir"
               /\ handles[j].path = handles[last'.h].path) =>
                  ListedBy(heap', handles[j]) = ListedBy(heap, handles[j])]_vars

\* another handle than i is a file handle opened by the path of handle i
HasTwin(i) ==
    \E j \in 1..Len(handles) :
        j # i /\ handles[j].kind = "file" /\ handles[j].path = handles[i].path

\* C13: where two file handles were opened on one path, a Read of k bytes on
\* one of them that is open returns the next k bytes, or as many as are
\* left, of the content the file had when that handle was opened, counted
\* from the bytes that handle itself has returned; it fails with EOF only
\* when none is left, and it leaves every other handle as it was.
C13_IndependentCursors ==
    [][(/\ last'.op = "read"
        /\ handles[last'.h].kind = "file"
        /\ ~handles[last'.h].closed
        /\ HasTwin(last'.h)) =>
            LET x == handles[last'.h]
                done == Len(x.got)
                n == Min(last'.n, Len(x.snap) - done)
            IN  /\ IsPrefix(x.got, x.snap)
                /\ last'.bytes = SubSeq(x.snap, done + 1, done + n)
                /\ last'.err = IF done = Len(x.snap) /\ last'.n > 0
                                THEN Bare("EOF") ELSE NoErr
                /\ handles'[last'.h].got = x.got \o last'.bytes
                /\ \A j \in 1..Len(handles) : j # last'.h => handles'[j] = handles[j]]_vars

\* two handles opened on one path while the file had one content of two
\* bytes: the one has returned the first byte, and a Read on the other has
\* just returned the last byte to it
C13_Witness ==
    /\ last.op = "read"
    /\ Len(handles) = 2
    /\ handles[1].kind = "file"
    /\ handles[2].kind = "file"
    /\ handles[1].path = handles[2].path
    /\ handles[1].node = handles[2].node
    /\ Len(handles[last.h].snap) = 2
    /\ handles[last.h].got = handles[last.h].snap
    /\ last.bytes = <<handles[last.h].snap[2]>>
    /\ Len(handles[3 - last.h].got) = 1

\* C14 (as claimed): for every file of the tree, the size that the Info of
\* its listing entry reports is the length of the data WriteFile stored
\* there, whatever was done on handles to it.  Fails: the Stat of a handle
\* stores the handle's unread length into the fileInfo the entry shares.
C14_ListingSize ==
    \A n \in NodesUnder(heap, Root) :
        heap[n].kind = "file" => Info(heap[n]).size = Len(heap[n].content.buf)

\* C15: a WriteFile(p, d) that succeeds leaves the size that Stat reports on
\* every open file handle opened by p as it was: Stat still succeeds and
\* reports the same size after the write as before it.
C15_HandleSizeStable ==
    [][(last'.op = "write" /\ last'.err = NoErr) =>
          \A i \in 1..Len(handles) :
              (/\ handles[i].kind = "file"
               /\ ~handles[i].closed
               /\ handles[i].path = last'.path) =>
                  /\ StatRes(heap', handles'[i]).err = NoErr
                  /\ StatRes(heap', handles'[i]).info.size
                        = StatRes(heap, handles[i]).info.size]_vars

\* a file has been overwritten with data of another length than the open
\* handle on its path still reports
C15_Witness ==
    /\ last.op = "write"
    /\ last.err = NoErr
    /\ Len(handles) = 1
    /\ handles[1].kind = "file"
    /\ ~handles[1].closed
    /\ handles[1].path = last.path
    /\ NodeAt(heap, last.path) # handles[1].node
    /\ StatRes(heap, handles[1]).info.size # Len(last.data)
    /\ StatRes(heap, handles[1]).info.size > 0

\* C16: a MkdirAll that returns an error, for a path outside the grammar or
\* for a segment that is a file, leaves every node as it was and allocates
\* none: no directory is created by a call that fails.
C16_FailingMkdirAllAtomic ==
    [][(last'.op = "mkdir" /\ last'.err # NoErr) =>
            (heap' = heap /\ clock' = clock)]_vars

\* a MkdirAll of two segments has failed at its first segment, a file, in a
\* tree that has a directory too
C16_Witness ==
    /\ last.op = "mkdir"
    /\ Len(SplitOf[last.path]) = 2
    /\ last.err = Errorf(SplitOf[last.path][1], "is not directory", "")
    /\ PrefixNode(heap, last.path, 1) # 0
    /\ heap[PrefixNode(heap, last.path, 1)].kind = "file"
    /\ \E n \in NodesUnder(heap, Root) : n # Root /\ heap[n].kind = "dir"

\* k is one segment of a valid path: not empty, without "/", not "." and
\* not ".."
IsSegment(k) ==
    /\ k # Empty
    /\ \A i \in 1..Len(k) : k[i] # Slash
    /\ k # Dot
    /\ k # <<".", ".">>

\* C17 (as claimed): after any MkdirAll and WriteFile calls, every key of the
\* child map of every directory is one valid segment, and the root is a
\* directory named "." that Open(".") returns.  Fails: WriteFile(".", d)
\* stores a file under the key "." in the root.
C17_ChildNames ==
    /\ \A n \in NodesUnder(heap, Root) :
          \A k \in DOMAIN heap[n].entries : IsSegment(k)
    /\ heap[Root].kind = "dir"
    /\ heap[Root].name = Dot
    /\ OpenRes(heap, Dot) = [err |-> NoErr, kind |-> "dir", node |-> Root]

\* the step is a WriteFile that succeeds on a path that resolved to a file
Overwrites ==
    /\ last'.op = "write"
    /\ last'.err = NoErr
    /\ NodeAt(heap, last'.path) # 0
    /\ heap[NodeAt(heap, last'.path)].kind = "file"

\* C18 (as claimed): a WriteFile that overwrites the file at a path leaves
\* the modTime reported for the path as it was.  Fails: the file that
\* WriteFile stores carries the time of the write.
C18_NoRefreshOnOverwrite ==
    [][Overwrites =>
          heap'[NodeAt(heap', last'.path)].modTime
              = heap[NodeAt(heap, last'.path)].modTime]_vars

\* C18 (amended): no step changes the modTime of a node that exists, and a
\* WriteFile that overwrites the file at a path puts a new node there whose
\* modTime is the time of the write, later than that of the file replaced.
C18_ModTimePerNode ==
    [][/\ \A n \in 1..Len(heap) : heap'[n].modTime = heap[n].modTime
       /\ Overwrites =>
            /\ NodeAt(heap', last'.path) = Len(heap')
            /\ Len(heap') = Len(heap) + 1
            /\ heap'[NodeAt(heap', last'.path)].modTime = clock'
            /\ heap'[NodeAt(heap', last'.path)].modTime
                  > heap[NodeAt(heap, last'.path)].modTime]_vars

\* a file under the root has been overwritten: the file of its name that was
\* replaced is out of the tree and older than the file at the path
C18_Witness ==
    /\ last.op = "write"
    /\ last.err = NoErr
    /\ Len(SplitOf[last.path]) = 1
    /\ last.path # Dot
    /\ NodeAt(heap, last.path) = Len(heap)
    /\ \E n \in 1..Len(heap) :
          /\ n \notin NodesUnder(heap, Root)
          /\ heap[n].kind = "file"
          /\ heap[n].name = last.path
          /\ heap[n].modTime < heap[NodeAt(heap, last.path)].modTime

\* C19: a store of the caller into the slice it gave to a WriteFile that
\* has returned changes no node, and so leaves what Open and Read to the end
\* return for every path as it was.
C19_NoCallerAlias ==
    [][last'.op = "scribble" =>
          /\ heap' = heap
          /\ \A p \in GoodPaths : ReadBack(heap', p) = ReadBack(heap, p)]_vars

\* the caller has overwritten both bytes of the slice it wrote to a path, and
\* the path still reads back the two bytes written
C19_Witness ==
    /\ last.op = "scribble"
    /\ last.err = NoErr
    /\ last.path # Dot
    /\ Len(last.data) = 2
    /\ ReadBack(heap, last.path) = [kind |-> "file", bytes |-> <<2, 1>>, err |-> NoErr]
    /\ last.data[1] # 2
    /\ last.data[2] # 1

====
